---- MODULE Spec2Model ----
(***************************************************************************)
(* Crackulator: a line-oriented expression interpreter.                    *)
(*                                                                         *)
(* The model follows the interpretation pipeline of the repository:        *)
(*   lexer  (lexerParser.js)        text of one line  -> tokens            *)
(*   Parser (lexerParser.js)        tokens            -> AST               *)
(*   evaluate (js/evaluator.js)     AST               -> {result, scope}   *)
(*   CalculationService.processLines / #processLine   one pass over lines  *)
(*   EditorController.#calculateResults               stores a pass        *)
(* and, beside it, the tab handlers of TabController (SpecTabs) and        *)
(* AppState.setState with its validators (SpecAppState).                   *)
(*                                                                         *)
(* A line is a sequence of one-character strings.  A JavaScript number is  *)
(* an exact fraction n/d, or NaN; every other JavaScript value that can    *)
(* flow through the evaluator (a function inherited from Object.prototype, *)
(* a string built by + on such a value) is the value Other.                *)
(***************************************************************************)
EXTENDS Integers, Sequences, FiniteSets, TLC

(***************************************************************************)
(* Bounds of the model.                                                    *)
(***************************************************************************)
\* the longest document (number of editor lines) a pass is run on
MaxLines == 3

(***************************************************************************)
(* JavaScript values.                                                      *)
(***************************************************************************)
RECURSIVE GCD(_, _)
GCD(a, b) == IF b = 0 THEN a ELSE GCD(b, a % b)

Abs(x) == IF x < 0 THEN -x ELSE x

NaN == [kind |-> "nan", n |-> 0, d |-> 1]

\* a JavaScript value that is not a number (a function, a string)
Other == [kind |-> "other", n |-> 0, d |-> 1]

\* the number n/d (d # 0), in lowest terms with a positive denominator
Num(n, d) ==
  LET g == GCD(Abs(n), Abs(d))
      s == IF d < 0 THEN -1 ELSE 1
  IN  [kind |-> "num", n |-> (s * n) \div g, d |-> (s * d) \div g]

IntNum(n) == Num(n, 1)

IsZero(v) == v.kind = "num" /\ v.n = 0

\* left + right: with a non-number operand + concatenates strings
JsAdd(l, r) ==
  IF l.kind = "other" \/ r.kind = "other" THEN Other
  ELSE IF l.kind = "nan" \/ r.kind = "nan" THEN NaN
  ELSE Num(l.n * r.d + r.n * l.d, l.d * r.d)

JsSub(l, r) ==
  IF l.kind # "num" \/ r.kind # "num" THEN NaN
  ELSE Num(l.n * r.d - r.n * l.d, l.d * r.d)

JsMul(l, r) ==
  IF l.kind # "num" \/ r.kind # "num" THEN NaN
  ELSE Num(l.n * r.n, l.d * r.d)

\* left / right for right that is not the number 0
JsDiv(l, r) ==
  IF l.kind # "num" \/ r.kind # "num" THEN NaN
  ELSE Num(l.n * r.d, l.d * r.n)

(***************************************************************************)
(* Characters.                                                             *)
(***************************************************************************)
Digits == <<"0", "1", "2", "3", "4", "5", "6", "7", "8", "9">>

IsDigit(c) == \E i \in 1..Len(Digits) : Digits[i] = c

DigitVal(c) == (CHOOSE i \in 1..Len(Digits) : Digits[i] = c) - 1

\* /\s/ on the characters a line can hold (a line holds no line break)
IsSpace(c) == c \in {" ", "\t"}

\* /[a-zA-Z]/
IsLetter(c) ==
  c \in {"a", "b", "c", "d", "e", "f", "g", "h", "i", "j", "k", "l", "m",
         "n", "o", "p", "q", "r", "s", "t", "u", "v", "w", "x", "y", "z",
         "A", "B", "C", "D", "E", "F", "G", "H", "I", "J", "K", "L", "M",
         "N", "O", "P", "Q", "R", "S", "T", "U", "V", "W", "X", "Y", "Z"}

\* the first index >= i of input whose character is not in the class, or
\* Len(input) + 1: the inner while loops of the lexer
RECURSIVE ScanDigits(_, _)
ScanDigits(input, i) ==
  IF i <= Len(input) /\ IsDigit(input[i]) THEN ScanDigits(input, i + 1) ELSE i

RECURSIVE ScanNumber(_, _)
ScanNumber(input, i) ==
  IF i <= Len(input) /\ (IsDigit(input[i]) \/ input[i] = ".")
  THEN ScanNumber(input, i + 1) ELSE i

RECURSIVE ScanName(_, _)
ScanName(input, i) ==
  IF i <= Len(input) /\ (IsLetter(input[i]) \/ IsDigit(input[i]))
  THEN ScanName(input, i + 1) ELSE i

\* the natural number written by a sequence of digits
RECURSIVE DigitsValue(_)
DigitsValue(ds) ==
  IF ds = <<>> THEN 0
  ELSE 10 * DigitsValue(SubSeq(ds, 1, Len(ds) - 1)) + DigitVal(ds[Len(ds)])

RECURSIVE Pow10(_)
Pow10(k) == IF k = 0 THEN 1 ELSE 10 * Pow10(k - 1)

\* parseInt(num) on a run of digits: NaN for the empty run
ParseInt(num) == IF num = <<>> THEN NaN ELSE IntNum(DigitsValue(num))

\* parseFloat(num) on a run of digits and dots: the digits before the first
\* dot and the digits between the first and the second dot; NaN when both
\* are missing
ParseFloat(num) ==
  LET e1   == ScanDigits(num, 1)
      ip   == SubSeq(num, 1, e1 - 1)
      e2   == IF e1 <= Len(num) THEN ScanDigits(num, e1 + 1) ELSE e1
      fp   == IF e1 <= Len(num) THEN SubSeq(num, e1 + 1, e2 - 1) ELSE <<>>
  IN  IF ip = <<>> /\ fp = <<>> THEN NaN
      ELSE Num(DigitsValue(ip) * Pow10(Len(fp)) + DigitsValue(fp), Pow10(Len(fp)))

\* String.prototype.trim
RECURSIVE TrimLeft(_)
TrimLeft(s) ==
  IF s # <<>> /\ IsSpace(s[1]) THEN TrimLeft(Tail(s)) ELSE s

RECURSIVE TrimRight(_)
TrimRight(s) ==
  IF s # <<>> /\ IsSpace(s[Len(s)]) THEN TrimRight(SubSeq(s, 1, Len(s) - 1)) ELSE s

Trim(s) == TrimRight(TrimLeft(s))

(***************************************************************************)
(* Lexer.  A token is [type, num, text]: num is the value of a NUMBER or   *)
(* LINEREF token, text the value of every other token.                     *)
(***************************************************************************)
Token(type, num, text) == [type |-> type, num |-> num, text |-> text]

\* the index i of the lexer after one iteration of its while loop that
\* started at index i
LexNext(input, i) ==
  LET char == input[i] IN
    IF IsSpace(char) THEN i + 1
    ELSE IF char = "#" THEN ScanDigits(input, i + 1)
    ELSE IF IsDigit(char) \/ char = "." THEN ScanNumber(input, i)
    ELSE IF IsLetter(char) THEN ScanName(input, i)
    ELSE i + 1

RECURSIVE LexFrom(_, _, _)

\* the lexer pushing a token for a character it does not know
LexFromUnknownToken(input, i, tokens) ==
  IF i > Len(input) THEN tokens
  ELSE LET char == input[i] IN
    IF IsSpace(char) THEN LexFrom(input, i + 1, tokens)
    ELSE IF char = "#" THEN
      LET e == ScanDigits(input, i + 1)
      IN  LexFrom(input, e,
            Append(tokens, Token("LINEREF", ParseInt(SubSeq(input, i + 1, e - 1)), <<>>)))
    ELSE IF IsDigit(char) \/ char = "." THEN
      LET e == ScanNumber(input, i)
      IN  LexFrom(input, e,
            Append(tokens, Token("NUMBER", ParseFloat(SubSeq(input, i, e - 1)), <<>>)))
    ELSE IF IsLetter(char) THEN
      LET e == ScanName(input, i)
      IN  LexFrom(input, e,
            Append(tokens, Token("VARIABLE", NaN, SubSeq(input, i, e - 1))))
    ELSE IF char \in {"+", "-", "*", "/"} THEN
      LexFrom(input, i + 1, Append(tokens, Token("OPERATOR", NaN, <<char>>)))
    ELSE IF char = "=" THEN
      LexFrom(input, i + 1, Append(tokens, Token("ASSIGN", NaN, <<char>>)))
    ELSE IF char = "(" THEN
      LexFrom(input, i + 1, Append(tokens, Token("LPAREN", NaN, <<char>>)))
    ELSE IF char = ")" THEN
      LexFrom(input, i + 1, Append(tokens, Token("RPAREN", NaN, <<char>>)))
    ELSE LexFrom(input, i + 1, Append(tokens, Token("UNKNOWN", NaN, <<char>>)))

LexFrom(input, i, tokens) ==
  IF i > Len(input) THEN tokens
  ELSE LET char == input[i] IN
    IF IsSpace(char) THEN LexFrom(input, i + 1, tokens)
    ELSE IF char = "#" THEN
      LET e == ScanDigits(input, i + 1)
      IN  LexFrom(input, e,
            Append(tokens, Token("LINEREF", ParseInt(SubSeq(input, i + 1, e - 1)), <<>>)))
    ELSE IF IsDigit(char) \/ char = "." THEN
      LET e == ScanNumber(input, i)
      IN  LexFrom(input, e,
            Append(tokens, Token("NUMBER", ParseFloat(SubSeq(input, i, e - 1)), <<>>)))
    ELSE IF IsLetter(char) THEN
      LET e == ScanName(input, i)
      IN  LexFrom(input, e,
            Append(tokens, Token("VARIABLE", NaN, SubSeq(input, i, e - 1))))
    ELSE IF char \in {"+", "-", "*", "/"} THEN
      LexFrom(input, i + 1, Append(tokens, Token("OPERATOR", NaN, <<char>>)))
    ELSE IF char = "=" THEN
      LexFrom(input, i + 1, Append(tokens, Token("ASSIGN", NaN, <<char>>)))
    ELSE IF char = "(" THEN
      LexFrom(input, i + 1, Append(tokens, Token("LPAREN", NaN, <<char>>)))
    ELSE IF char = ")" THEN
      LexFrom(input, i + 1, Append(tokens, Token("RPAREN", NaN, <<char>>)))
    ELSE LexFrom(input, i + 1, tokens)

\* a lexer that pushes no token for a minus sign at the start of the input
lexerDropLeadingMinus(input) ==
  IF input # <<>> /\ input[1] = "-" THEN LexFrom(input, 2, <<>>)
  ELSE LexFrom(input, 1, <<>>)

lexer(input) == LexFrom(input, 1, <<>>)

(***************************************************************************)
(* Parser.  Every parse operator takes the token list and the parser's     *)
(* index (1-based here, 0-based in the code) and returns                   *)
(* [ok, node, index, error]: ok = FALSE stands for a thrown Error.         *)
(***************************************************************************)
NullNode == [type |-> "null"]

Parsed(node, index) == [ok |-> TRUE, node |-> node, index |-> index, error |-> ""]

ParseError(message, index) ==
  [ok |-> FALSE, node |-> NullNode, index |-> index, error |-> message]

\* hasNext() { return this.index < this.tokens.length; }
hasNext(tokens, index) == index <= Len(tokens)

Binary(op, left, right) ==
  [type |-> "binary", operator |-> op, left |-> left, right |-> right]

RECURSIVE parseExpression(_, _)
RECURSIVE parseExpressionLoop(_, _, _)
RECURSIVE parseTerm(_, _)
RECURSIVE parseTermLoop(_, _, _)
RECURSIVE parseFactor(_, _)

\* parseFactor without its test for the end of the token list: the missing
\* token is reported like a token that starts no factor
parseFactorNoEndCheck(tokens, index) ==
  IF ~hasNext(tokens, index) THEN ParseError("Unexpected token", index + 1)
  ELSE LET token == tokens[index] IN
    IF token.type = "NUMBER" THEN
      Parsed([type |-> "number", value |-> token.num], index + 1)
    ELSE IF token.type = "VARIABLE" THEN
      Parsed([type |-> "variable", name |-> token.text], index + 1)
    ELSE IF token.type = "LINEREF" THEN
      Parsed([type |-> "lineref", line |-> token.num], index + 1)
    ELSE IF token.type = "LPAREN" THEN
      LET e == parseExpression(tokens, index + 1) IN
        IF ~e.ok THEN e
        ELSE IF ~hasNext(tokens, e.index) \/ tokens[e.index].type # "RPAREN"
          THEN ParseError("Expected closing parenthesis",
                          IF hasNext(tokens, e.index) THEN e.index + 1 ELSE e.index)
          ELSE Parsed(e.node, e.index + 1)
    ELSE ParseError("Unexpected token", index + 1)

parseFactor(tokens, index) ==
  IF ~hasNext(tokens, index) THEN ParseError("Unexpected end of input", index + 1)
  ELSE LET token == tokens[index] IN
    IF token.type = "NUMBER" THEN
      Parsed([type |-> "number", value |-> token.num], index + 1)
    ELSE IF token.type = "VARIABLE" THEN
      Parsed([type |-> "variable", name |-> token.text], index + 1)
    ELSE IF token.type = "LINEREF" THEN
      Parsed([type |-> "lineref", line |-> token.num], index + 1)
    ELSE IF token.type = "LPAREN" THEN
      LET e == parseExpression(tokens, index + 1) IN
        IF ~e.ok THEN e
        ELSE IF ~hasNext(tokens, e.index) \/ tokens[e.index].type # "RPAREN"
          THEN ParseError("Expected closing parenthesis",
                          IF hasNext(tokens, e.index) THEN e.index + 1 ELSE e.index)
          ELSE Parsed(e.node, e.index + 1)
    ELSE ParseError("Unexpected token", index + 1)

\* the while loop of parseTerm
parseTermLoop(tokens, left, index) ==
  IF hasNext(tokens, index) /\ tokens[index].text \in {<<"*">>, <<"/">>} THEN
    LET r == parseFactor(tokens, index + 1) IN
      IF ~r.ok THEN r
      ELSE parseTermLoop(tokens, Binary(tokens[index].text[1], left, r.node), r.index)
  ELSE Parsed(left, index)

parseTerm(tokens, index) ==
  LET l == parseFactor(tokens, index) IN
    IF ~l.ok THEN l ELSE parseTermLoop(tokens, l.node, l.index)

\* the loop of parseExpression taking the whole rest of the expression as
\* its right operand
parseExpressionLoopRight(tokens, left, index) ==
  IF hasNext(tokens, index) /\ tokens[index].text \in {<<"+">>, <<"-">>} THEN
    LET r == parseExpression(tokens, index + 1) IN
      IF ~r.ok THEN r
      ELSE Parsed(Binary(tokens[index].text[1], left, r.node), r.index)
  ELSE Parsed(left, index)

\* the while loop of parseExpression
parseExpressionLoop(tokens, left, index) ==
  IF hasNext(tokens, index) /\ tokens[index].text \in {<<"+">>, <<"-">>} THEN
    LET r == parseTerm(tokens, index + 1) IN
      IF ~r.ok THEN r
      ELSE parseExpressionLoop(tokens, Binary(tokens[index].text[1], left, r.node), r.index)
  ELSE Parsed(left, index)

parseExpression(tokens, index) ==
  LET l == parseTerm(tokens, index) IN
    IF ~l.ok THEN l ELSE parseExpressionLoop(tokens, l.node, l.index)

\* called with the index on a VARIABLE token followed by an ASSIGN token
parseAssignment(tokens, index) ==
  LET e == parseExpression(tokens, index + 2) IN
    IF ~e.ok THEN e
    ELSE Parsed([type |-> "assignment", variable |-> tokens[index].text,
                 expression |-> e.node], e.index)

\* Parser.parse on a fresh parser.  this.tokens[this.index + 1].type reads a
\* property of undefined when a VARIABLE token is the only token: a TypeError
parse(tokens) ==
  IF ~hasNext(tokens, 1) THEN Parsed(NullNode, 1)
  ELSE IF tokens[1].type = "VARIABLE" /\ hasNext(tokens, 1) THEN
    IF Len(tokens) < 2
      THEN ParseError("Cannot read properties of undefined (reading 'type')", 1)
    ELSE IF tokens[2].type = "ASSIGN" THEN parseAssignment(tokens, 1)
    ELSE parseExpression(tokens, 1)
  ELSE parseExpression(tokens, 1)

(***************************************************************************)
(* Evaluator.  evaluate returns [ok, result, scope, error]: with ok it is  *)
(* the object { result, scope } the code returns, without it a thrown      *)
(* Error.  A scope is a function from variable names to values.            *)
(***************************************************************************)
EmptyScope == [name \in {} |-> NaN]

\* names every object literal inherits from Object.prototype, as far as the
\* lexer can produce them (letters and digits only)
ObjectPrototypeKeys ==
  {<<"c", "o", "n", "s", "t", "r", "u", "c", "t", "o", "r">>,
   <<"t", "o", "S", "t", "r", "i", "n", "g">>,
   <<"v", "a", "l", "u", "e", "O", "f">>}

\* name in scope
In(name, scope) == name \in DOMAIN scope \/ name \in ObjectPrototypeKeys

\* scope[name], for a name that is in scope
Get(scope, name) == IF name \in DOMAIN scope THEN scope[name] ELSE Other

\* { ...scope } with scope[name] = value
Put(scope, name, value) ==
  [k \in DOMAIN scope \cup {name} |-> IF k = name THEN value ELSE scope[k]]

\* the display strings a pass stores, and null (a result without value)
DisplayEmpty == "-"
DisplayError == "e"
DisplayZero == "0"
DisplayObject == "[object Object]"
DisplayNull == "null"

\* parseFloat(refValue) on the values a results array holds
ParseFloatDisplay(refValue) ==
  IF refValue = DisplayZero THEN IntNum(0) ELSE NaN

Evaluated(result, scope) ==
  [ok |-> TRUE, result |-> result, scope |-> scope, error |-> ""]

Thrown(message, scope) ==
  [ok |-> FALSE, result |-> NaN, scope |-> scope, error |-> message]

\* lineResults[lineIndex] === undefined, lineIndex = line - 1 (0-based)
IsUndefinedAt(lineResults, line) ==
  line.kind # "num" \/ line.d # 1 \/ line.n - 1 < 0 \/ line.n - 1 >= Len(lineResults)

\* EvalLineRef without its range test: lineResults[lineIndex] is then
\* undefined for a line that has no result yet, and parseFloat gives NaN
EvalLineRefNoRangeCheck(line, lineResults, currentLine, scope) ==
  IF IsUndefinedAt(lineResults, line) THEN Evaluated(NaN, scope)
  ELSE IF lineResults[line.n] = DisplayError
    THEN Thrown("Cannot reference an error", scope)
  ELSE Evaluated(ParseFloatDisplay(lineResults[line.n]), scope)

\* EvalLineRef without its test for the error marker 'e'
EvalLineRefNoErrorCheck(line, lineResults, currentLine, scope) ==
  IF (line.kind = "num" /\ (line.n - 1 >= currentLine \/ line.n - 1 < 0))
       \/ IsUndefinedAt(lineResults, line)
    THEN Thrown("Invalid line reference", scope)
  ELSE Evaluated(ParseFloatDisplay(lineResults[line.n]), scope)

\* EvalLineRef raising an Error when the referenced display is no number
EvalLineRefRejectNaN(line, lineResults, currentLine, scope) ==
  IF (line.kind = "num" /\ (line.n - 1 >= currentLine \/ line.n - 1 < 0))
       \/ IsUndefinedAt(lineResults, line)
    THEN Thrown("Invalid line reference", scope)
  ELSE IF lineResults[line.n] = DisplayError
    THEN Thrown("Cannot reference an error", scope)
  ELSE IF ParseFloatDisplay(lineResults[line.n]) = NaN
    THEN Thrown("Cannot reference an error", scope)
  ELSE Evaluated(ParseFloatDisplay(lineResults[line.n]), scope)

\* the lineref branch of evaluate
EvalLineRef(line, lineResults, currentLine, scope) ==
  IF (line.kind = "num" /\ (line.n - 1 >= currentLine \/ line.n - 1 < 0))
       \/ IsUndefinedAt(lineResults, line)
    THEN Thrown("Invalid line reference", scope)
  ELSE IF lineResults[line.n] = DisplayError
    THEN Thrown("Cannot reference an error", scope)
  ELSE Evaluated(ParseFloatDisplay(lineResults[line.n]), scope)

\* the switch on ast.operator
ApplyOperator(op, left, right) ==
  CASE op = "+" -> JsAdd(left, right)
    [] op = "-" -> JsSub(left, right)
    [] op = "*" -> JsMul(left, right)
    [] op = "/" -> IF IsZero(right) THEN NaN ELSE JsDiv(left, right)

RECURSIVE evaluate(_, _, _, _)
evaluate(ast, scope, lineResults, currentLine) ==
  IF ast.type = "null" THEN Evaluated(NaN, scope)
  ELSE IF ast.type = "number" THEN Evaluated(ast.value, scope)
  ELSE IF ast.type = "variable" THEN
    IF ~In(ast.name, scope) THEN Thrown("Undefined variable", scope)
    ELSE Evaluated(Get(scope, ast.name), scope)
  ELSE IF ast.type = "lineref" THEN
    EvalLineRef(ast.line, lineResults, currentLine, scope)
  ELSE IF ast.type = "binary" THEN
    LET leftEval == evaluate(ast.left, scope, lineResults, currentLine) IN
      IF ~leftEval.ok THEN leftEval
      ELSE LET rightEval == evaluate(ast.right, leftEval.scope, lineResults, currentLine) IN
        IF ~rightEval.ok THEN rightEval
        ELSE IF ast.operator \notin {"+", "-", "*", "/"}
          THEN Thrown("Unknown operator", rightEval.scope)
        ELSE Evaluated(ApplyOperator(ast.operator, leftEval.result, rightEval.result),
                       rightEval.scope)
  ELSE IF ast.type = "assignment" THEN
    LET evalExpression == evaluate(ast.expression, scope, lineResults, currentLine) IN
      IF ~evalExpression.ok THEN evalExpression
      ELSE Evaluated(evalExpression.result,
                     Put(evalExpression.scope, ast.variable, evalExpression.result))
  ELSE Thrown("Unknown AST node type", scope)

\* evaluate writing the assignment into the object passed in
ScopeAfterEvaluateInPlace(ast, scope, lineResults, currentLine) ==
  LET value == evaluate(ast, scope, lineResults, currentLine)
  IN  IF value.ok THEN value.scope ELSE scope

\* The caller's scope object after evaluate(ast, scope, ...) returned or
\* threw: evaluate assigns only to newScope, a copy, so the object passed in
\* is left as it was.
ScopeAfterEvaluate(ast, scope, lineResults, currentLine) == scope

(***************************************************************************)
(* CalculationService.  A result object is [value, type, error, hasRaw,    *)
(* raw]: value is the display string, raw the value evaluate returned.     *)
(***************************************************************************)
NoRaw == [result |-> NaN, scope |-> EmptyScope]

Result(value, type) ==
  [value |-> value, type |-> type, error |-> "", hasRaw |-> FALSE, raw |-> NoRaw]

ErrorResult(message) ==
  [value |-> DisplayError, type |-> "error", error |-> message,
   hasRaw |-> FALSE, raw |-> NoRaw]

\* { value: value.toString(), type: 'number', raw: value }: value is the
\* object evaluate returned, and Object.prototype.toString gives
\* "[object Object]" for it
NumberResult(value) ==
  [value |-> DisplayObject, type |-> "number", error |-> "",
   hasRaw |-> TRUE, raw |-> [result |-> value.result, scope |-> value.scope]]

\* results.map(r => r.value)
SimpleResults(results) == [k \in 1..Len(results) |-> results[k].value]

\* value.isNaN && value.isNaN() on the object evaluate returned: the object
\* has no isNaN property
HasIsNaN(value) == FALSE

\* #processLine turning an Error of evaluate into a zero result
processLineSwallow(line, scope, results, index) ==
  LET trimmed == Trim(line) IN
  IF trimmed = <<>> THEN Result(DisplayNull, "empty")
  ELSE LET tokens == lexer(trimmed) IN
    IF Len(tokens) = 0 THEN Result(DisplayZero, "empty")
    ELSE LET parser == parse(tokens) IN
      IF ~parser.ok THEN ErrorResult(parser.error)
      ELSE IF hasNext(tokens, parser.index) THEN ErrorResult("Extra tokens after expression")
      ELSE LET value == evaluate(parser.node, scope, SimpleResults(results), index) IN
        IF ~value.ok THEN Result(DisplayZero, "null")
        ELSE NumberResult(value)

\* #processLine without its test of parser.hasNext() after the parse
processLineNoExtraCheck(line, scope, results, index) ==
  LET trimmed == Trim(line) IN
  IF trimmed = <<>> THEN Result(DisplayNull, "empty")
  ELSE LET tokens == lexer(trimmed) IN
    IF Len(tokens) = 0 THEN Result(DisplayZero, "empty")
    ELSE LET parser == parse(tokens) IN
      IF ~parser.ok THEN ErrorResult(parser.error)
      ELSE LET value == evaluate(parser.node, scope, SimpleResults(results), index) IN
        IF ~value.ok THEN ErrorResult(value.error)
        ELSE NumberResult(value)

\* CalculationService.#processLine: every Error thrown by the lexer, the
\* parser or evaluate is caught and returned as an error result
processLine(line, scope, results, index) ==
  LET trimmed == Trim(line) IN
  IF trimmed = <<>> THEN Result(DisplayNull, "empty")
  ELSE LET tokens == lexer(trimmed) IN
    IF Len(tokens) = 0 THEN Result(DisplayZero, "empty")
    ELSE LET parser == parse(tokens) IN
      IF ~parser.ok THEN ErrorResult(parser.error)
      ELSE IF hasNext(tokens, parser.index) THEN ErrorResult("Extra tokens after expression")
      ELSE LET value == evaluate(parser.node, scope, SimpleResults(results), index) IN
        IF ~value.ok THEN ErrorResult(value.error)
        ELSE IF HasIsNaN(value) /\ value.result.kind = "nan" THEN Result(DisplayZero, "nan")
        ELSE NumberResult(value)

\* the scope object handed to #processLine, after the call
ScopeAfterProcessLine(line, scope, results, index) ==
  LET trimmed == Trim(line)
      tokens  == lexer(trimmed)
      parser  == parse(tokens)
  IN  IF trimmed = <<>> \/ Len(tokens) = 0 \/ ~parser.ok \/ hasNext(tokens, parser.index)
        THEN scope
      ELSE ScopeAfterEvaluate(parser.node, scope, SimpleResults(results), index)

\* the loop leaving a blank line without pushing a result
LoopBodySkipEmpty(results, line, scope, index) ==
  IF Trim(line) = <<>> THEN results
  ELSE Append(results, processLine(line, scope, results, index))

\* one iteration of the for loop of processLines on the line at 0-based
\* index: the results array after the iteration.  #processLine throws
\* nothing, so the catch of the loop pushes nothing.
LoopBody(results, line, scope, index) ==
  IF Trim(line) = <<>> THEN Append(results, Result(DisplayEmpty, "empty"))
  ELSE Append(results, processLine(line, scope, results, index))

\* the tempScope object after the iteration
LoopScope(line, scope, results, index) ==
  IF Trim(line) = <<>> THEN scope
  ELSE ScopeAfterProcessLine(line, scope, results, index)

(***************************************************************************)
(* The documents of the model.                                             *)
(***************************************************************************)
LineEmpty  == <<>>
LineAssign == <<"x", " ", "=", " ", "1", "0">>
LineRead   == <<"x", " ", "*", " ", "2">>
LineName   == <<"x">>
LineNumber == <<"1", "0">>
LineRefOne == <<"#", "1", " ", "+", " ", "5">>
LineRefTwo == <<"#", "2">>
LineRefZero == <<"#", "0">>
LineDivZero == <<"5", " ", "/", " ", "0">>
LineSyntax == <<"1", " ", "+">>

LineSet ==
  {LineEmpty, LineAssign, LineRead, LineName, LineNumber, LineRefOne,
   LineRefTwo, LineRefZero, LineDivZero, LineSyntax}

\* the texts an edit puts in the place of a line
EditSet == {LineEmpty, LineNumber, LineSyntax}

Documents == UNION {[1..n -> LineSet] : n \in 1..MaxLines}

(***************************************************************************)
(* AppState as it is constructed.                                          *)
(***************************************************************************)
\* the values of the state keys: a type (typeof, with "null" and "array")
\* and a text that tells the values of one type apart
JsValue(type, text) == [type |-> type, text |-> text]

JsNull == JsValue("null", "")

JsString(text) == JsValue("string", text)

EmptyArray == JsValue("array", "")

\* activeTabId: null, where the id 'tab_n' of a tab is the number n >= 1
NoTab == 0

\* the object that the key 'editor' of #state refers to
EditorObject == "editorObject"

\* #state: the top-level keys that have a validator, 'editor' as a reference
InitialState ==
  [editor |-> EditorObject, results |-> EmptyArray, activeTabId |-> JsNull]

\* the object behind 'editor': content '' (cursor and scrollTop left out)
InitialHeap == [o \in {EditorObject} |-> [content |-> JsString("")]]

\* AppState.getState(): the state as it is read, the references followed
getState(st, hp) ==
  [editor |-> hp[st.editor], results |-> st.results,
   activeTabId |-> st.activeTabId]

\* a call of setState: what getState gave before it, and whether it threw
Call(before, threw) == [made |-> TRUE, before |-> before, threw |-> threw]

\* no call of setState has been made
NoCall ==
  [made |-> FALSE, before |-> getState(InitialState, InitialHeap),
   threw |-> FALSE]

\* AppState.#setNestedValue(obj, keyPath, value), keyPath split at the dots:
\* a key path of one key assigns to obj itself, a longer one to the object
\* that obj[keys[0]] refers to
setNestedValue(st, hp, keys, value) ==
  IF Len(keys) = 1
    THEN [state |-> [st EXCEPT ![keys[1]] = value], heap |-> hp]
    ELSE [state |-> st,
          heap |-> [hp EXCEPT ![st[keys[1]]][keys[2]] = value]]

\* the first loop of setState over Object.entries(updates)
RECURSIVE ApplyUpdates(_, _, _)
ApplyUpdates(st, hp, updates) ==
  IF updates = <<>> THEN [state |-> st, heap |-> hp]
  ELSE LET one == setNestedValue(st, hp, updates[1].keys, updates[1].value)
       IN  ApplyUpdates(one.state, one.heap, Tail(updates))

\* the validators of #setupValidators, all of them on newState
Valid(st, hp) ==
  /\ hp[st.editor].content.type = "string"
  /\ st.results.type = "array"
  /\ st.activeTabId.type \in {"null", "string"}

(***************************************************************************)
(* State.                                                                  *)
(***************************************************************************)
VARIABLES
  content,       \* AppState 'editor.content', split into lines
  pc,            \* "idle", or "running" inside #calculateResults
  lines,         \* processLines: the lines parameter
  index,         \* processLines: number of lines the loop has handled
  results,       \* processLines: the local results array
  tempScope,     \* processLines: the local scope object
  stateResults,  \* AppState 'results'
  variables,     \* AppState 'variables'
  prevLines,     \* the lines of the last pass stored (history variable)
  history,       \* AppState 'history': the contents an undo goes back to
  debounceTimer, \* the pending timeouts of #handleInput, each with its content
  sinceInput,    \* milliseconds since the last timeout was set
  passes,        \* the calls of #calculateResults that have not returned yet
  tabs,          \* AppState 'tabs': the ids of the tabs, in order
  activeTabId,   \* AppState 'activeTabId'
  nextTabId,     \* TabService #nextTabId
  handlers,      \* the tab handlers suspended at an await, with their locals
  appState,      \* AppState #state, the object 'editor' by reference
  heap,          \* the objects that #state refers to
  lastCall       \* the last call of setState: getState before it, and threw

\* the state of the editor controller
editorVars == <<history, debounceTimer, sinceInput, passes>>

\* the state of the tab controller
tabVars == <<tabs, activeTabId, nextTabId, handlers>>

\* the state object of AppState
appVars == <<appState, heap, lastCall>>

vars == <<content, pc, lines, index, results, tempScope, stateResults,
          variables, prevLines, history, debounceTimer, sinceInput, passes,
          tabs, activeTabId, nextTabId, handlers, appState, heap, lastCall>>

\* AppState #state as constructed: tabs [], activeTabId null; TabService
\* #nextTabId = 1; no handler has been called
InitialTabs ==
  /\ tabs = <<>>
  /\ activeTabId = NoTab
  /\ nextTabId = 1
  /\ handlers = <<>>

\* AppState #state as constructed
InitialAppState ==
  /\ appState = InitialState
  /\ heap = InitialHeap
  /\ lastCall = NoCall

Init ==
  /\ content \in Documents
  /\ pc = "idle"
  /\ lines = <<>>
  /\ index = 0
  /\ results = <<>>
  /\ tempScope = EmptyScope
  /\ stateResults = <<>>
  /\ variables = EmptyScope
  /\ prevLines = <<>>
  /\ history = <<>>
  /\ debounceTimer = <<>>
  /\ sinceInput = 0
  /\ InitialTabs
  /\ InitialAppState
  /\ passes = <<>>

\* EditorController.#handleInput: the content changes in one line; the
\* model lets the pass of every edit run before the next edit
EditLine(i, text) ==
  /\ pc = "idle"
  /\ content = prevLines
  /\ i \in 1..Len(content)
  /\ text # content[i]
  /\ content' = [content EXCEPT ![i] = text]
  /\ UNCHANGED <<pc, lines, index, results, tempScope, stateResults, variables,
                 prevLines>>
  /\ UNCHANGED editorVars
  /\ UNCHANGED <<tabVars, appVars>>

\* a pass that goes on with the results array of the pass before it
StartPassKeepResults ==
  /\ pc = "idle"
  /\ content # prevLines
  /\ pc' = "running"
  /\ lines' = content
  /\ index' = 0
  /\ results' = stateResults
  /\ tempScope' = variables
  /\ UNCHANGED <<content, stateResults, variables, prevLines>>
  /\ UNCHANGED editorVars
  /\ UNCHANGED <<tabVars, appVars>>

\* #calculateResults up to the first iteration of processLines
StartPass ==
  /\ pc = "idle"
  /\ content # prevLines
  /\ pc' = "running"
  /\ lines' = content
  /\ index' = 0
  /\ results' = <<>>
  /\ tempScope' = EmptyScope
  /\ UNCHANGED <<content, stateResults, variables, prevLines>>
  /\ UNCHANGED editorVars
  /\ UNCHANGED <<tabVars, appVars>>

\* one iteration of the for loop of processLines
ProcessNextLine ==
  /\ pc = "running"
  /\ index < Len(lines)
  /\ results' = LoopBody(results, lines[index + 1], tempScope, index)
  /\ tempScope' = LoopScope(lines[index + 1], tempScope, results, index)
  /\ index' = index + 1
  /\ UNCHANGED <<content, pc, lines, stateResults, variables, prevLines>>
  /\ UNCHANGED editorVars
  /\ UNCHANGED <<tabVars, appVars>>

\* processLines returns { results, updatedVariables: tempScope } and
\* #calculateResults stores both
StoreResults ==
  /\ pc = "running"
  /\ index = Len(lines)
  /\ stateResults' = results
  /\ variables' = tempScope
  /\ prevLines' = lines
  /\ pc' = "idle"
  /\ UNCHANGED <<content, lines, index, results, tempScope>>
  /\ UNCHANGED editorVars
  /\ UNCHANGED <<tabVars, appVars>>

Next ==
  \/ \E i \in 1..MaxLines, text \in EditSet : EditLine(i, text)
  \/ StartPass
  \/ ProcessNextLine
  \/ StoreResults

Spec == Init /\ [][Next]_vars

(***************************************************************************)
(* Single passes over documents with further kinds of line: a pass runs    *)
(* from #calculateResults to the storing of its results, with no edit.     *)
(***************************************************************************)
LineJunk        == <<"$">>
LineExtra       == <<"1", " ", "2">>
LineExtraAssign == <<"y", " ", "=", " ", "1", " ", "2">>
LineReadY       == <<"y", " ", "+", " ", "1">>
LineProto       == <<"c", "o", "n", "s", "t", "r", "u", "c", "t", "o", "r", " ", "+", " ", "1">>
LineUpperAssign == <<"X", " ", "=", " ", "1", "1">>
LineUpperRead   == <<"X", " ", "*", " ", "2">>

PassLineSet ==
  {LineEmpty, LineAssign, LineRead, LineNumber, LineJunk, LineExtra,
   LineExtraAssign, LineReadY, LineProto, LineUpperAssign, LineUpperRead}

PassDocuments == UNION {[1..n -> PassLineSet] : n \in 1..MaxLines}

InitPass ==
  /\ content \in PassDocuments
  /\ pc = "idle"
  /\ lines = <<>>
  /\ index = 0
  /\ results = <<>>
  /\ tempScope = EmptyScope
  /\ stateResults = <<>>
  /\ variables = EmptyScope
  /\ prevLines = <<>>
  /\ history = <<>>
  /\ debounceTimer = <<>>
  /\ sinceInput = 0
  /\ InitialTabs
  /\ InitialAppState
  /\ passes = <<>>

NextPass ==
  \/ StartPass
  \/ ProcessNextLine
  \/ StoreResults

SpecPass == InitPass /\ [][NextPass]_vars

(***************************************************************************)
(* Passes over one line: the expressions and the lines led by a name that  *)
(* the lexer and the parser are applied to.                                *)
(***************************************************************************)
Operators == {"+", "-", "*", "/"}

\* three and four operands without parentheses, and three operands with
\* one pair of parentheses
ExpressionLines ==
  {<<"8", a, "4", b, "2">> : a, b \in Operators}
    \cup {<<"8", a, "4", b, "2", c, "3">> : a, b, c \in Operators}
    \cup {<<"(", "8", a, "4", ")", b, "2">> : a, b \in Operators}
    \cup {<<"8", a, "(", "4", b, "2", ")">> : a, b \in Operators}

NameLines ==
  {<<"x">>, <<"x", "1">>, <<"x", "=", "1">>, <<"x", "=">>, <<"x", "+", "1">>,
   <<"x", " ", "y">>, <<"(", "x", ")">>, <<"1", "=", "x">>, <<"=", "1">>,
   <<"x", "=", "y", "=", "1">>, <<"#", "1", "=", "1">>}

\* an expression cut off where a factor has to follow
TruncatedLines ==
  {<<"8", a>> : a \in Operators}
    \cup {<<"8", a, "4", b>> : a, b \in Operators}
    \cup {<<"(">>, <<"8", "+", "(">>, <<"(", "8", "*">>, <<"x", "=">>, <<"x", "=", "8", "-">>}

\* a token that starts no factor where a factor has to follow
BadFactorLines ==
  {<<t, "8">> : t \in Operators \cup {"=", ")"}}
    \cup {<<"8", a, t>> : a \in Operators, t \in Operators \cup {"=", ")"}}
    \cup {<<"(", ")">>, <<"(", "+", "8", ")">>, <<"x", "=", "=", "8">>}

\* an opened parenthesis whose expression is not followed by ')'
UnclosedLines ==
  {<<"(", "8">>, <<"(", "8", "+", "4">>, <<"(", "8", " ", "4", ")">>,
   <<"(", "(", "8", ")">>, <<"2", "*", "(", "8", "-", "4">>, <<"(", "8", "=", "4", ")">>,
   <<"x", "=", "(", "8">>}

ErrorLines == TruncatedLines \cup BadFactorLines \cup UnclosedLines

\* an expression behind a leading minus sign
LeadingMinusLines ==
  {<<"-">> \o line : line \in ExpressionLines}
    \cup {<<"-", "3", "+", "2">>, <<"-", "8">>, <<"-", " ", "8">>}

ParseLineSet ==
  ExpressionLines \cup NameLines \cup ErrorLines \cup LeadingMinusLines

InitParse ==
  /\ content \in {<<line>> : line \in ParseLineSet}
  /\ pc = "idle"
  /\ lines = <<>>
  /\ index = 0
  /\ results = <<>>
  /\ tempScope = EmptyScope
  /\ stateResults = <<>>
  /\ variables = EmptyScope
  /\ prevLines = <<>>
  /\ history = <<>>
  /\ debounceTimer = <<>>
  /\ sinceInput = 0
  /\ InitialTabs
  /\ InitialAppState
  /\ passes = <<>>

SpecParse == InitParse /\ [][NextPass]_vars

(***************************************************************************)
(* The editor controller: input, undo and changes of the content by other  *)
(* parts of the application, each starting calls of #calculateResults.     *)
(* processLines is async and awaits #processLine, which awaits import(),   *)
(* for every line: between two lines of a pass other handlers can run, so  *)
(* a pass is a record that moves one line at a time.                       *)
(***************************************************************************)
MaxHistory == 3
MaxInFlight == 2

\* '' split into lines
EmptyDocument == <<LineEmpty>>

EditorDocuments == {EmptyDocument, <<LineNumber>>, <<LineAssign, LineRead>>}

\* content && content.trim()
IsBlank(doc) == \A i \in 1..Len(doc) : Trim(doc[i]) = <<>>

\* a call of #calculateResults(content) at the start of processLines; again
\* says that #handleUndo is waiting for the call and repeats it
NewPass(doc, again) ==
  [lines |-> doc, index |-> 0, results |-> <<>>, tempScope |-> EmptyScope,
   again |-> again]

RemoveAt(seq, i) == SubSeq(seq, 1, i - 1) \o SubSeq(seq, i + 1, Len(seq))

\* EditorController.#initializeView on the content the state was built with
InitEditor ==
  /\ content \in EditorDocuments
  /\ pc = "idle"
  /\ lines = <<>>
  /\ index = 0
  /\ results = <<>>
  /\ tempScope = EmptyScope
  /\ stateResults = <<>>
  /\ variables = EmptyScope
  /\ prevLines = <<>>
  /\ history = IF content # EmptyDocument THEN <<content>> ELSE <<>>
  /\ debounceTimer = <<>>
  /\ sinceInput = 0
  /\ InitialTabs
  /\ InitialAppState
  /\ passes = IF IsBlank(content) THEN <<>> ELSE <<NewPass(content, FALSE)>>

passVars == <<pc, lines, index, results, tempScope, prevLines>>

\* #handleInput without its clearTimeout
HandleInputNoClear(doc) ==
  /\ doc # content
  /\ Len(history) < MaxHistory
  /\ content' = doc
  /\ history' = Append(history, doc)
  /\ debounceTimer' = Append(debounceTimer, doc)
  /\ sinceInput' = 0
  /\ UNCHANGED <<passes, stateResults, variables>>
  /\ UNCHANGED passVars
  /\ UNCHANGED <<tabVars, appVars>>

\* EditorController.#handleInput: the state takes the content and the
\* history, clearTimeout takes away the timeout that #debounceTimer names
\* (the last one set, when it is still pending) and a new one is set.  The
\* view holds the content already, so #handleStateChange starts nothing.
HandleInput(doc) ==
  /\ doc # content
  /\ Len(history) < MaxHistory
  /\ content' = doc
  /\ history' = Append(history, doc)
  /\ debounceTimer' = Append(SubSeq(debounceTimer, 1, Len(debounceTimer) - 1), doc)
  /\ sinceInput' = 0
  /\ UNCHANGED <<passes, stateResults, variables>>
  /\ UNCHANGED passVars
  /\ UNCHANGED <<tabVars, appVars>>

\* the callback of setTimeout, 300 ms after the last input
TimerFires ==
  /\ debounceTimer # <<>>
  /\ Len(passes) < MaxInFlight
  /\ passes' = Append(passes, NewPass(debounceTimer[1], FALSE))
  /\ debounceTimer' = Tail(debounceTimer)
  /\ UNCHANGED <<content, history, sinceInput, stateResults, variables>>
  /\ UNCHANGED passVars
  /\ UNCHANGED <<tabVars, appVars>>

\* EditorController.#handleUndo: setState emits the change of the content,
\* #handleStateChange finds it different from the view and calculates, and
\* when that call has returned #handleUndo calculates once more; when the
\* view holds the previous content already only #handleUndo calculates
HandleUndo ==
  /\ Len(history) > 1
  /\ Len(passes) < MaxInFlight
  /\ LET newHistory == SubSeq(history, 1, Len(history) - 1)
         previousContent == newHistory[Len(newHistory)]
     IN  /\ content' = previousContent
         /\ history' = newHistory
         /\ passes' = Append(passes, NewPass(previousContent, previousContent # content))
  /\ UNCHANGED <<debounceTimer, sinceInput, stateResults, variables>>
  /\ UNCHANGED passVars
  /\ UNCHANGED <<tabVars, appVars>>

\* EditorController.#handleStateChange on a change of 'editor.content' made
\* by another part of the application (a tab is opened, a file is loaded)
ExternalChange(doc) ==
  /\ doc # content
  /\ Len(passes) < MaxInFlight
  /\ content' = doc
  /\ passes' = Append(passes, NewPass(doc, FALSE))
  /\ UNCHANGED <<history, debounceTimer, sinceInput, stateResults, variables>>
  /\ UNCHANGED passVars
  /\ UNCHANGED <<tabVars, appVars>>

\* one iteration of the for loop of processLines in the i-th call
PassStep(i) ==
  /\ i \in 1..Len(passes)
  /\ passes[i].index < Len(passes[i].lines)
  /\ LET p == passes[i]
         line == p.lines[p.index + 1]
     IN  passes' = [passes EXCEPT ![i] =
           [p EXCEPT !.results = LoopBody(p.results, line, p.tempScope, p.index),
                     !.tempScope = LoopScope(line, p.tempScope, p.results, p.index),
                     !.index = p.index + 1]]
  /\ UNCHANGED <<content, history, debounceTimer, sinceInput, stateResults, variables>>
  /\ UNCHANGED passVars
  /\ UNCHANGED <<tabVars, appVars>>

\* processLines of the i-th call returns and #calculateResults stores the
\* results and the variables; the call #handleUndo waits for is followed by
\* its second call
PassStore(i) ==
  /\ i \in 1..Len(passes)
  /\ passes[i].index = Len(passes[i].lines)
  /\ stateResults' = passes[i].results
  /\ variables' = passes[i].tempScope
  /\ passes' = IF passes[i].again
                 THEN [passes EXCEPT ![i] = NewPass(passes[i].lines, FALSE)]
               ELSE RemoveAt(passes, i)
  /\ UNCHANGED <<content, history, debounceTimer, sinceInput>>
  /\ UNCHANGED passVars
  /\ UNCHANGED <<tabVars, appVars>>

NextEditor ==
  \/ \E doc \in EditorDocuments : HandleInput(doc)
  \/ TimerFires
  \/ HandleUndo
  \/ \E doc \in EditorDocuments : ExternalChange(doc)
  \/ \E i \in 1..MaxInFlight : PassStep(i)
  \/ \E i \in 1..MaxInFlight : PassStore(i)

SpecEditor == InitEditor /\ [][NextEditor]_vars

\* the editor with input and undo only: no other part of the application
\* changes the content
NextInputUndo ==
  \/ \E doc \in EditorDocuments : HandleInput(doc)
  \/ TimerFires
  \/ HandleUndo
  \/ \E i \in 1..MaxInFlight : PassStep(i)
  \/ \E i \in 1..MaxInFlight : PassStore(i)

SpecInputUndo == InitEditor /\ [][NextInputUndo]_vars

(***************************************************************************)
(* The editor with input only and with time: a timeout set by              *)
(* setTimeout(..., 300) runs when 300 ms have passed since it was set.     *)
(***************************************************************************)
DebounceMs == 300

\* 100 ms pass while a timeout is pending and not yet due
Tick ==
  /\ debounceTimer # <<>>
  /\ sinceInput < DebounceMs
  /\ sinceInput' = sinceInput + 100
  /\ UNCHANGED <<content, history, debounceTimer, passes, stateResults, variables>>
  /\ UNCHANGED passVars
  /\ UNCHANGED <<tabVars, appVars>>

\* the callback of setTimeout runs when its delay has passed
TimerFiresDue == sinceInput = DebounceMs /\ TimerFires

NextDebounce ==
  \/ \E doc \in EditorDocuments : HandleInput(doc)
  \/ Tick
  \/ TimerFiresDue
  \/ \E i \in 1..MaxInFlight : PassStep(i)
  \/ \E i \in 1..MaxInFlight : PassStore(i)

SpecDebounce == InitEditor /\ [][NextDebounce]_vars

(***************************************************************************)
(* Passes over one line of arbitrary characters, for the lexer.            *)
(***************************************************************************)
MaxChars == 3

\* one character of every class of the lexer, and two it does not know
LexAlphabet == {" ", "#", "1", ".", "x", "-", "=", "(", ")", "$", "@"}

LexLines == UNION {[1..n -> LexAlphabet] : n \in 1..MaxChars}

InitLex ==
  /\ content \in {<<line>> : line \in LexLines}
  /\ pc = "idle"
  /\ lines = <<>>
  /\ index = 0
  /\ results = <<>>
  /\ tempScope = EmptyScope
  /\ stateResults = <<>>
  /\ variables = EmptyScope
  /\ prevLines = <<>>
  /\ history = <<>>
  /\ debounceTimer = <<>>
  /\ sinceInput = 0
  /\ InitialTabs
  /\ InitialAppState
  /\ passes = <<>>

SpecLex == InitLex /\ [][NextPass]_vars

(***************************************************************************)
(* The tab controller: #handleTabSelect, #handleTabClose and #handleNewTab *)
(* are async functions.  Each runs to its next await without interruption; *)
(* at an await whose promise needs a timer or an animation it is suspended *)
(* with its local variables, and any other handler may run; an await whose *)
(* promise is settled without one lets no handler in.  setState            *)
(* assigns #state before its first await (no middleware is registered), so *)
(* the assignment belongs to the step that calls it.  A tab is its id; the *)
(* content and the name of a tab are left out.                             *)
(***************************************************************************)
\* the tabs createTab may make
MaxTabs == 4
\* the handlers that may be suspended at once
MaxHandlers == 2

\* TabService.findTab: whether a tab with the id is found
findTab(ts, tabId) == \E i \in 1..Len(ts) : ts[i] = tabId

\* TabService.removeTab
removeTab(ts, tabId) == SelectSeq(ts, LAMBDA t : t # tabId)

\* tabs.findIndex(tab => tab.id === closedTabId), counted from 1
findIndex(ts, tabId) == CHOOSE i \in 1..Len(ts) : ts[i] = tabId

\* TabService.getNextActiveTabId
getNextActiveTabId(ts, closedTabId, currentActiveId) ==
  IF Len(ts) = 0 THEN NoTab
  ELSE IF closedTabId # currentActiveId THEN currentActiveId
  ELSE IF ~findTab(ts, closedTabId) THEN ts[1]
  ELSE LET closedIndex == findIndex(ts, closedTabId)
       IN  IF closedIndex < Len(ts) THEN ts[closedIndex + 1]
           ELSE IF closedIndex > 1 THEN ts[closedIndex - 1]
           ELSE ts[1]

\* the local variables of a suspended handler
Handler(kind, tabId, ts, active, next) ==
  [kind |-> kind, tabId |-> tabId, tabs |-> ts, activeTabId |-> active,
   nextActiveTabId |-> next]

\* TabController.#initializeView with nothing in localStorage: the default tab
InitTabs ==
  /\ content = EmptyDocument
  /\ pc = "idle"
  /\ lines = <<>>
  /\ index = 0
  /\ results = <<>>
  /\ tempScope = EmptyScope
  /\ stateResults = <<>>
  /\ variables = EmptyScope
  /\ prevLines = <<>>
  /\ history = <<>>
  /\ debounceTimer = <<>>
  /\ sinceInput = 0
  /\ passes = <<>>
  /\ tabs = <<1>>
  /\ activeTabId = 1
  /\ nextTabId = 2
  /\ handlers = <<>>
  /\ InitialAppState

nonTabVars == <<content, pc, lines, index, results, tempScope, stateResults,
                variables, prevLines, history, debounceTimer, sinceInput,
                passes>>

\* #handleTabSelect up to the wait of #animateContentSwitch: the tab is
\* looked up, the content of the active tab is saved into the tabs just read
\* (the ids stay), and tabId is kept for the callback
TabSelectStart(tabId) ==
  /\ findTab(tabs, tabId)
  /\ tabId # activeTabId
  /\ Len(handlers) < MaxHandlers
  /\ handlers' = Append(handlers, Handler("select", tabId, tabs, activeTabId, NoTab))
  /\ UNCHANGED <<tabs, activeTabId, nextTabId>>
  /\ UNCHANGED nonTabVars
  /\ UNCHANGED appVars

\* the callback of #handleTabSelect after the 200 ms of the fade-out:
\* setState({activeTabId: tabId, ...})
TabSelectSwitch(i) ==
  /\ handlers[i].kind = "select"
  /\ activeTabId' = handlers[i].tabId
  /\ handlers' = RemoveAt(handlers, i)
  /\ UNCHANGED <<tabs, nextTabId>>
  /\ UNCHANGED nonTabVars
  /\ UNCHANGED appVars

\* #handleTabClose up to await animateRemoveTab; closing the only tab puts a
\* new tab in its place at once
TabCloseStart(tabId) ==
  /\ findTab(tabs, tabId)
  /\ IF Len(tabs) = 1
       THEN /\ nextTabId <= MaxTabs
            /\ tabs' = <<nextTabId>>
            /\ activeTabId' = nextTabId
            /\ nextTabId' = nextTabId + 1
            /\ UNCHANGED handlers
       ELSE /\ Len(handlers) < MaxHandlers
            /\ handlers' = Append(handlers,
                 Handler("close", tabId, tabs, activeTabId,
                         getNextActiveTabId(tabs, tabId, activeTabId)))
            /\ UNCHANGED <<tabs, activeTabId, nextTabId>>
  /\ UNCHANGED nonTabVars
  /\ UNCHANGED appVars

\* #handleTabClose after the animation: the tab is removed from the tabs
\* read before the animation; the active tab changes when the closed tab was
\* the active one then
TabCloseFinish(i) ==
  /\ handlers[i].kind = "close"
  /\ LET h == handlers[i]
         updatedTabs == removeTab(h.tabs, h.tabId)
     IN  /\ tabs' = updatedTabs
         /\ activeTabId' = IF h.tabId = h.activeTabId /\ h.nextActiveTabId # NoTab
                             THEN h.nextActiveTabId
                             ELSE activeTabId
  /\ handlers' = RemoveAt(handlers, i)
  /\ UNCHANGED nextTabId
  /\ UNCHANGED nonTabVars
  /\ UNCHANGED appVars

\* #handleNewTab: the content of the active tab is saved into the tabs just
\* read (the ids stay); the promise of that setState is settled by the
\* listeners of 'state:changed', none of which waits for a timer or an event
\* on an update of 'tabs', so no other handler runs before the new tab is
\* put behind the tabs of the state and becomes the active tab
handleNewTab ==
  /\ nextTabId <= MaxTabs
  /\ tabs' = Append(tabs, nextTabId)
  /\ activeTabId' = nextTabId
  /\ nextTabId' = nextTabId + 1
  /\ UNCHANGED handlers
  /\ UNCHANGED nonTabVars
  /\ UNCHANGED appVars

NextTabs ==
  \/ \E tabId \in 1..MaxTabs : TabSelectStart(tabId)
  \/ \E i \in 1..Len(handlers) : TabSelectSwitch(i)
  \/ \E tabId \in 1..MaxTabs : TabCloseStart(tabId)
  \/ \E i \in 1..Len(handlers) : TabCloseFinish(i)
  \/ handleNewTab

SpecTabs == InitTabs /\ [][NextTabs]_vars

(***************************************************************************)
(* AppState.setState on its own: calls with one or more updates.           *)
(***************************************************************************)
\* the updates one call of setState may carry
MaxUpdates == 2

\* the key paths of the updates, split at the dots
KeyPaths == {<<"editor", "content">>, <<"results">>, <<"activeTabId">>}

\* the values a caller passes for a key path, valid and invalid
ValuesOf(keys) ==
  IF keys = <<"editor", "content">>
    THEN {JsString(""), JsString("1"), JsValue("number", "42")}
  ELSE IF keys = <<"results">>
    THEN {EmptyArray, JsValue("array", "2"), JsNull}
  ELSE {JsNull, JsString("tab_1"), JsValue("number", "1")}

Update(keys, value) == [keys |-> keys, value |-> value]

\* the objects of updates: up to MaxUpdates entries with different keys
UpdatesSet ==
  LET One == {Update(k, v) : <<k, v>> \in
                {<<k, v>> \in KeyPaths \X UNION {ValuesOf(k) : k \in KeyPaths} :
                   v \in ValuesOf(k)}}
  IN  {u \in UNION {[1..n -> One] : n \in 1..MaxUpdates} :
         \A i, j \in 1..Len(u) : i # j => u[i].keys # u[j].keys}

InitAppState ==
  /\ content = EmptyDocument
  /\ pc = "idle"
  /\ lines = <<>>
  /\ index = 0
  /\ results = <<>>
  /\ tempScope = EmptyScope
  /\ stateResults = <<>>
  /\ variables = EmptyScope
  /\ prevLines = <<>>
  /\ history = <<>>
  /\ debounceTimer = <<>>
  /\ sinceInput = 0
  /\ passes = <<>>
  /\ InitialTabs
  /\ InitialAppState

\* AppState.setState(updates): newState is a shallow copy of #state, so the
\* object behind 'editor' is the one #state refers to and a write under a
\* dotted key path is made in it at once; #state takes newState when every
\* validator accepts, and the call throws otherwise
setState(updates) ==
  LET before == getState(appState, heap)
      new == ApplyUpdates(appState, heap, updates)
  IN  /\ heap' = new.heap
      /\ IF Valid(new.state, new.heap)
           THEN /\ appState' = new.state
                /\ lastCall' = Call(before, FALSE)
           ELSE /\ appState' = appState
                /\ lastCall' = Call(before, TRUE)
      /\ UNCHANGED nonTabVars
      /\ UNCHANGED tabVars

NextAppState == \E updates \in UpdatesSet : setState(updates)

SpecAppState == InitAppState /\ [][NextAppState]_vars

\* every line of the three specifications
AllLines == LineSet \cup PassLineSet \cup ParseLineSet

(***************************************************************************)
(* Vocabulary of the properties.                                           *)
(***************************************************************************)
\* processLines has left its loop and is about to return
PassReturned == pc = "running" /\ index = Len(lines)

\* a pass has returned while the results of the pass before it, on the
\* document prevLines, are still the results stored
SecondPassReturned == PassReturned /\ prevLines # <<>>

IsError(r) == r.type = "error"

\* the tokens and the parse of every line of the documents
TokenTable == [line \in AllLines |-> lexer(Trim(line))]

ParseTable == [line \in AllLines |-> parse(lexer(Trim(line)))]

Tokens(line) == TokenTable[line]

ParseOf(line) == ParseTable[line]

\* the line numbers #n written on a line
RefTable ==
  [line \in AllLines |->
     {TokenTable[line][t].num.n : t \in {u \in 1..Len(TokenTable[line]) :
        TokenTable[line][u].type = "LINEREF" /\ TokenTable[line][u].num.kind = "num"}}]

Refs(line) == RefTable[line]

\* some line reference of the line names no line number at all ('#' alone)
HasBareRef(line) ==
  \E t \in 1..Len(Tokens(line)) :
    Tokens(line)[t].type = "LINEREF" /\ Tokens(line)[t].num.kind # "num"

\* the line is an assignment to the variable name
IsAssignmentOf(line, name) ==
  /\ Len(Tokens(line)) >= 2
  /\ Tokens(line)[1].type = "VARIABLE"
  /\ Tokens(line)[1].text = name
  /\ Tokens(line)[2].type = "ASSIGN"

\* the line reads the variable name
ReadsVariable(line, name) ==
  \E t \in 1..Len(Tokens(line)) :
    /\ Tokens(line)[t].type = "VARIABLE"
    /\ Tokens(line)[t].text = name
    /\ ~(t = 1 /\ IsAssignmentOf(line, name))

\* the variable names written in the documents of the model
Names ==
  UNION {{Tokens(l)[t].text : t \in {u \in 1..Len(Tokens(l)) :
            Tokens(l)[u].type = "VARIABLE"}} : l \in LineSet}

\* the scope object the loop of the running pass held when it reached the
\* k-th line (1-based), replayed from the results of the lines before it
RECURSIVE ScopeBefore(_)
ScopeBefore(k) ==
  IF k = 1 THEN EmptyScope
  ELSE LoopScope(lines[k - 1], ScopeBefore(k - 1), SubSeq(results, 1, k - 2), k - 2)

\* the lexer, the parser or evaluate raises an Error on the k-th line
Raises(k) ==
  LET tokens == Tokens(lines[k])
      parser == ParseOf(lines[k])
  IN  /\ Len(tokens) > 0
      /\ \/ ~parser.ok
         \/ /\ ~hasNext(tokens, parser.index)
            /\ ~evaluate(parser.node, ScopeBefore(k),
                         SimpleResults(SubSeq(results, 1, k - 1)), k - 1).ok

\* the k-th line has tokens left over after its parse
HasExtraTokens(k) ==
  LET tokens == Tokens(lines[k])
      parser == ParseOf(lines[k])
  IN  Len(tokens) > 0 /\ parser.ok /\ hasNext(tokens, parser.index)

\* the k-th line parses completely and the first thing it evaluates is a
\* line reference
FirstIsRef(k) ==
  /\ Len(Tokens(lines[k])) > 0
  /\ Tokens(lines[k])[1].type = "LINEREF"
  /\ ParseOf(lines[k]).ok
  /\ ~HasExtraTokens(k)

\* line j of the document refers to line i through at most depth line
\* references #n
RECURSIVE DependsOn(_, _, _, _)
DependsOn(doc, j, i, depth) ==
  /\ depth > 0
  /\ \/ i \in Refs(doc[j])
     \/ \E k \in Refs(doc[j]) \cap (1..Len(doc)) : DependsOn(doc, k, i, depth - 1)

\* the line the last edit changed
Changed == {i \in 1..Len(lines) : lines[i] # prevLines[i]}

(***************************************************************************)
(* C1: a pass returns exactly one outcome per input line, in line order:   *)
(* while the loop runs it has pushed one result for each line handled, the *)
(* result at a position is the empty marker exactly when the line at that  *)
(* position is blank, and the results stored have the length of the        *)
(* document, however many lines are empty or in error.                     *)
(***************************************************************************)
C1_OneOutcomePerLine ==
  /\ pc = "running" =>
       /\ Len(results) = index
       /\ \A k \in 1..Len(results) :
            (results[k].value = DisplayEmpty) <=> (Trim(lines[k]) = <<>>)
  /\ PassReturned => Len(results) = Len(lines)
  /\ (pc = "idle" /\ prevLines # <<>>) => Len(stateResults) = Len(prevLines)

C1_Witness ==
  /\ PassReturned
  /\ Len(lines) = MaxLines
  /\ \E a, b, c \in 1..Len(lines) :
       /\ Trim(lines[a]) = <<>>
       /\ IsError(results[b])
       /\ results[c].type = "number"

(***************************************************************************)
(* C2: no failure raised by the lexer, the parser or the evaluator on one  *)
(* line escapes the pass: the line gets an error result (display 'e'),     *)
(* a line is in error only for a failure of its own, and the loop goes on  *)
(* to the end of the document.  The formula speaks of the line the loop    *)
(* has just handled: every line of a pass is that line in one state.       *)
(***************************************************************************)
C2_FailureIsolated ==
  /\ pc = "running" =>
       \A k \in {index} \cap (1..Len(results)) :
         /\ Raises(k) => (IsError(results[k]) /\ results[k].value = DisplayError)
         /\ IsError(results[k]) => (Raises(k) \/ HasExtraTokens(k))
  /\ PassReturned => Len(results) = Len(lines)

C2_Witness ==
  /\ PassReturned
  /\ \E k \in 1..Len(lines) - 1 :
       /\ Raises(k)
       /\ IsError(results[k])
       /\ results[k + 1].type = "number"

C4_Causality ==
  pc = "running" =>
    \A k \in 1..Len(results) :
      /\ (HasBareRef(lines[k]) \/ \E n \in Refs(lines[k]) : ~(1 <= n /\ n <= k - 1))
           => IsError(results[k])
      /\ ( /\ FirstIsRef(k)
           /\ ~(Tokens(lines[k])[1].num.kind = "num"
                /\ 1 <= Tokens(lines[k])[1].num.n
                /\ Tokens(lines[k])[1].num.n <= k - 1) )
           => results[k].error = "Invalid line reference"

C4_Witness ==
  /\ PassReturned
  /\ \E a, d \in 1..Len(lines) :
       /\ a \in Refs(lines[a]) /\ results[a].error = "Invalid line reference"
       /\ Refs(lines[d]) # {} /\ results[d].type = "number"

(***************************************************************************)
(* C5: when an earlier line j is in error, every later line that refers to *)
(* it with #(j+1) is in error too, with "Cannot reference an error" when   *)
(* that reference is the first thing the line evaluates; so an error runs  *)
(* along every chain of line references.                                   *)
(***************************************************************************)
C5_ErrorPropagates ==
  pc = "running" =>
    \A k \in 1..Len(results) : \A j \in 1..(k - 1) :
      (IsError(results[j]) /\ j \in Refs(lines[k])) =>
        /\ IsError(results[k])
        /\ (FirstIsRef(k) /\ Tokens(lines[k])[1].num = IntNum(j))
             => results[k].error = "Cannot reference an error"

C5_Witness ==
  /\ PassReturned
  /\ Len(lines) >= 3
  /\ IsError(results[1])
  /\ 1 \in Refs(lines[2]) /\ results[2].error = "Cannot reference an error"
  /\ 2 \in Refs(lines[3]) /\ results[3].error = "Cannot reference an error"

(***************************************************************************)
(* C6: when the only assignment line of a variable, which defined it in    *)
(* the scope the previous pass returned, is removed or blanked, the next   *)
(* pass returns a scope without the variable and gives every line that     *)
(* still reads it an error result.                                         *)
(***************************************************************************)
\* line i was the only assignment to name in the previous document, it
\* succeeded there, and the last edit took the assignment away
AssignmentRemoved(name, i) ==
  /\ i \in Changed
  /\ IsAssignmentOf(prevLines[i], name)
  /\ ~IsError(stateResults[i])
  /\ \A j \in 1..Len(prevLines) : j # i => ~IsAssignmentOf(prevLines[j], name)
  /\ ~IsAssignmentOf(lines[i], name)

LastAssignment(name, j, k) ==
  /\ j < k
  /\ IsAssignmentOf(lines[j], name)
  /\ ~IsError(results[j])
  /\ \A m \in (j + 1)..(k - 1) :
       ~(IsAssignmentOf(lines[m], name) /\ ~IsError(results[m]))

C7_AssignmentVisible ==
  pc = "running" =>
    \A name \in Names : \A k \in 1..Len(results) : \A j \in 1..(k - 1) :
      (LastAssignment(name, j, k) /\ ReadsVariable(lines[k], name)) =>
        results[k] = processLine(lines[k],
                                 Put(EmptyScope, name, results[j].raw.result),
                                 SubSeq(results, 1, k - 1), k - 1)

(***************************************************************************)
(* C8: the scope a pass returns holds exactly the variables of the         *)
(* assignment lines whose result is not an error, each with the value of   *)
(* the last such assignment.                                               *)
(***************************************************************************)
Assigned ==
  {name \in Names :
     \E k \in 1..Len(lines) : IsAssignmentOf(lines[k], name) /\ ~IsError(results[k])}

C8_ReturnedScope ==
  PassReturned =>
    /\ DOMAIN tempScope = Assigned
    /\ \A name \in Assigned : \A j \in 1..Len(lines) :
         LastAssignment(name, j, Len(lines) + 1) =>
           tempScope[name] = results[j].raw.result

(***************************************************************************)
(* C9: evaluate on an Assignment node returns a plain number and writes it *)
(* into the scope object of its caller: right after the line is handled    *)
(* the result displays a number and scope[name] is the value returned.     *)
(***************************************************************************)
C9_AssignmentWritesScope ==
  (pc = "running" /\ index >= 1) =>
    \A name \in Names :
      (IsAssignmentOf(lines[index], name) /\ ~IsError(results[index])) =>
        /\ results[index].value # DisplayObject
        /\ name \in DOMAIN tempScope
        /\ tempScope[name] = results[index].raw.result

(***************************************************************************)
(* C10: a / 0 raises nothing: the result of the line is no error, it       *)
(* displays zero and the value behind it is not-a-number.                  *)
(***************************************************************************)
\* the line parses to a division by the literal 0
IsDivisionByZero(line) ==
  LET parser == ParseOf(line)
  IN  /\ Len(Tokens(line)) > 0
      /\ parser.ok
      /\ ~hasNext(Tokens(line), parser.index)
      /\ parser.node.type = "binary"
      /\ parser.node.operator = "/"
      /\ parser.node.right.type = "number"
      /\ IsZero(parser.node.right.value)

C10_DivisionByZero ==
  pc = "running" =>
    \A k \in 1..Len(results) :
      IsDivisionByZero(lines[k]) =>
        /\ ~IsError(results[k])
        /\ results[k].value = DisplayZero
        /\ results[k].hasRaw => results[k].raw.result = NaN

(***************************************************************************)
(* C11: a line reference to an earlier line that is a division by zero     *)
(* does not fail: the referencing line never gets the error of a failed    *)
(* reference from it, and a line that parses completely, reads no variable *)
(* and refers to such lines only has no error result at all.  The formula  *)
(* speaks of the line the loop has just handled.                           *)
(***************************************************************************)
\* every line reference of the k-th line names an earlier division by zero
RefersOnlyToDivisionByZero(k) ==
  /\ Refs(lines[k]) # {}
  /\ ~HasBareRef(lines[k])
  /\ \A n \in Refs(lines[k]) : n <= k - 1 /\ n >= 1 /\ IsDivisionByZero(lines[n])

C11_RefToDivisionByZero ==
  pc = "running" =>
    \A k \in {index} \cap (1..Len(results)) :
      /\ (FirstIsRef(k) /\ Tokens(lines[k])[1].num.kind = "num"
            /\ Tokens(lines[k])[1].num.n \in 1..(k - 1)
            /\ IsDivisionByZero(lines[Tokens(lines[k])[1].num.n]))
           => results[k].error \notin {"Cannot reference an error", "Invalid line reference"}
      /\ (RefersOnlyToDivisionByZero(k) /\ FirstIsRef(k)
            /\ \A name \in Names : ~ReadsVariable(lines[k], name))
           => ~IsError(results[k])

C11_Witness ==
  /\ PassReturned
  /\ \E k \in 2..Len(lines) :
       /\ IsDivisionByZero(lines[k - 1])
       /\ ~IsError(results[k - 1])
       /\ Refs(lines[k]) = {k - 1}
       /\ results[k].type = "number"
       /\ results[k].raw.result = NaN

(***************************************************************************)
(* C12: a line that is empty after trimming gets the empty marker without  *)
(* a call of the lexer, the parser or evaluate, and the pass goes on with  *)
(* the scope unchanged: the scope after the line is the scope before it,   *)
(* and a line right after it that reads a variable assigned right before   *)
(* it has the result it has under the scope holding that assignment (z = 5 *)
(* then an empty line then z + 1 gives 5, empty, 6).                       *)
(***************************************************************************)
C12_EmptyLine ==
  pc = "running" =>
    \A k \in 1..Len(results) :
      Trim(lines[k]) = <<>> =>
        /\ results[k] = Result(DisplayEmpty, "empty")
        /\ ScopeBefore(k + 1) = ScopeBefore(k)
        /\ \A name \in Names :
             ( /\ k >= 2 /\ k + 1 <= Len(results)
               /\ IsAssignmentOf(lines[k - 1], name)
               /\ ~IsError(results[k - 1])
               /\ ReadsVariable(lines[k + 1], name) )
             => results[k + 1] =
                  processLine(lines[k + 1],
                              Put(EmptyScope, name, results[k - 1].raw.result),
                              SubSeq(results, 1, k), k)

(***************************************************************************)
(* C13: a line that is not blank and whose text gives no token gets a      *)
(* value result that stands for the number zero: it displays 0, and it is  *)
(* neither an empty result nor an error result.                            *)
(***************************************************************************)
\* the k-th line is not blank and the lexer finds no token on it
HasNoToken(k) == Trim(lines[k]) # <<>> /\ Len(Tokens(lines[k])) = 0

C13_ZeroTokens ==
  pc = "running" =>
    \A k \in 1..Len(results) :
      HasNoToken(k) =>
        /\ results[k].value = DisplayZero
        /\ results[k].type # "empty"
        /\ results[k].type # "error"

(***************************************************************************)
(* C14: when the parse of a line returns a tree and leaves tokens          *)
(* unconsumed, the result of the line is the error "Extra tokens after     *)
(* expression", evaluate is not called on the tree (the result carries no  *)
(* value of evaluate and the scope after the line is the scope before it,  *)
(* without the variable of an assignment on the line), and the pass goes   *)
(* on to the end of the document.                                          *)
(***************************************************************************)
\* the variable names written in the documents of single passes
PassNames ==
  UNION {{Tokens(l)[t].text : t \in {u \in 1..Len(Tokens(l)) :
            Tokens(l)[u].type = "VARIABLE"}} : l \in PassLineSet}

C14_ExtraTokens ==
  /\ pc = "running" =>
       \A k \in 1..Len(results) :
         HasExtraTokens(k) =>
           /\ IsError(results[k])
           /\ results[k].error = "Extra tokens after expression"
           /\ ~results[k].hasRaw
           /\ ScopeBefore(k + 1) = ScopeBefore(k)
           /\ \A name \in PassNames :
                IsAssignmentOf(lines[k], name) =>
                  (name \in DOMAIN ScopeBefore(k + 1) <=> name \in DOMAIN ScopeBefore(k))
  /\ PassReturned => Len(results) = Len(lines)

C14_Witness ==
  /\ PassReturned
  /\ \E k \in 1..Len(lines) - 1, name \in PassNames :
       /\ HasExtraTokens(k)
       /\ IsAssignmentOf(lines[k], name)
       /\ results[k].error = "Extra tokens after expression"
       /\ results[k + 1].type = "number"

(***************************************************************************)
(* C15: parse follows the assignment rule exactly when the token list      *)
(* starts with a VARIABLE token followed by an ASSIGN token, and the       *)
(* expression rule on every other token list that is not empty; so a line  *)
(* that is one variable name parses to a variable node and its result is   *)
(* what evaluate makes of that node.                                       *)
(***************************************************************************)
\* the token list starts with a name and '='
StartsAssignment(tokens) ==
  Len(tokens) >= 2 /\ tokens[1].type = "VARIABLE" /\ tokens[2].type = "ASSIGN"

\* the token list is one name
IsSingleName(tokens) == Len(tokens) = 1 /\ tokens[1].type = "VARIABLE"

C15_ParseRule ==
  pc = "running" =>
    \A k \in 1..Len(results) :
      LET tokens == Tokens(lines[k]) IN
        Len(tokens) > 0 =>
          /\ StartsAssignment(tokens) => ParseOf(lines[k]) = parseAssignment(tokens, 1)
          /\ ~StartsAssignment(tokens) => ParseOf(lines[k]) = parseExpression(tokens, 1)
          /\ IsSingleName(tokens) =>
               /\ ParseOf(lines[k]).ok
               /\ ParseOf(lines[k]).node = [type |-> "variable", name |-> tokens[1].text]
               /\ LET value == evaluate(ParseOf(lines[k]).node, ScopeBefore(k),
                                        SimpleResults(SubSeq(results, 1, k - 1)), k - 1)
                  IN  results[k] = IF value.ok THEN NumberResult(value)
                                   ELSE ErrorResult(value.error)

(***************************************************************************)
(* C16: a line that reads a variable has a result other than an error only *)
(* if the scope holds a variable of exactly that name, letter case         *)
(* included; when it does not, the result is the error "Undefined          *)
(* variable" and no default value stands in.  A variable assigned under    *)
(* one letter case does not define the name in another letter case.        *)
(***************************************************************************)
C16_ExactName ==
  pc = "running" =>
    \A k \in 1..Len(results) : \A name \in PassNames :
      ( /\ ReadsVariable(lines[k], name)
        /\ ParseOf(lines[k]).ok
        /\ ~HasExtraTokens(k)
        /\ name \notin DOMAIN ScopeBefore(k) )
      => /\ IsError(results[k])
         /\ results[k].error = "Undefined variable"

(***************************************************************************)
(* C17: a variable assigned under one letter case is read and reassigned   *)
(* under every other letter case of its name: after an assignment line     *)
(* without error the scope holds the value under the lower-cased name, and *)
(* a later line that reads the name in any letter case, with no            *)
(* assignment to it in between, has the result it has under a scope that   *)
(* binds the name it reads to that value.                                  *)
(***************************************************************************)
UpperLetters ==
  <<"A", "B", "C", "D", "E", "F", "G", "H", "I", "J", "K", "L", "M",
    "N", "O", "P", "Q", "R", "S", "T", "U", "V", "W", "X", "Y", "Z">>

LowerLetters ==
  <<"a", "b", "c", "d", "e", "f", "g", "h", "i", "j", "k", "l", "m",
    "n", "o", "p", "q", "r", "s", "t", "u", "v", "w", "x", "y", "z">>

\* String.prototype.toLowerCase on a name of letters and digits
ToLowerCase(name) ==
  [i \in 1..Len(name) |->
     IF \E u \in 1..Len(UpperLetters) : UpperLetters[u] = name[i]
       THEN LowerLetters[CHOOSE u \in 1..Len(UpperLetters) : UpperLetters[u] = name[i]]
     ELSE name[i]]

\* line k assigns, without error, a name that is other in some letter case
AssignsAnyCase(k, other) ==
  \E name \in PassNames :
    /\ ToLowerCase(name) = ToLowerCase(other)
    /\ IsAssignmentOf(lines[k], name)
    /\ ~IsError(results[k])

C17_CaseInsensitive ==
  pc = "running" =>
    \A k \in 1..Len(results) : \A name \in PassNames :
      (IsAssignmentOf(lines[k], name) /\ ~IsError(results[k])) =>
        /\ ToLowerCase(name) \in DOMAIN ScopeBefore(k + 1)
        /\ ScopeBefore(k + 1)[ToLowerCase(name)] = results[k].raw.result
        /\ \A j \in (k + 1)..Len(results) : \A other \in PassNames :
             ( /\ ToLowerCase(other) = ToLowerCase(name)
               /\ ReadsVariable(lines[j], other)
               /\ \A m \in (k + 1)..(j - 1) : ~AssignsAnyCase(m, name) )
             => results[j] =
                  processLine(lines[j], Put(EmptyScope, other, results[k].raw.result),
                              SubSeq(results, 1, j - 1), j - 1)

(***************************************************************************)
(* C18: the outcomes and the scope a pass returns are fixed by its input   *)
(* lines: whatever the passes before it stored, a pass over the same lines *)
(* returns the results and the scope of the loop of processLines run on    *)
(* those lines from an empty results array and an empty scope, and that is *)
(* what is stored.                                                         *)
(***************************************************************************)
\* { results, updatedVariables } of processLines after n lines of doc
RECURSIVE ReturnAfter(_, _)
ReturnAfter(doc, n) ==
  IF n = 0 THEN [results |-> <<>>, updatedVariables |-> EmptyScope]
  ELSE LET before == ReturnAfter(doc, n - 1)
       IN  [results |-> LoopBody(before.results, doc[n], before.updatedVariables, n - 1),
            updatedVariables |->
              LoopScope(doc[n], before.updatedVariables, before.results, n - 1)]

C18_Deterministic ==
  /\ PassReturned =>
       LET returned == ReturnAfter(lines, Len(lines))
       IN  /\ results = returned.results
           /\ tempScope = returned.updatedVariables
  /\ (pc = "idle" /\ prevLines # <<>>) =>
       LET returned == ReturnAfter(prevLines, Len(prevLines))
       IN  /\ stateResults = returned.results
           /\ variables = returned.updatedVariables

\* the second pass of a run returns, on a document with a value and an
\* error, other results than the ones stored by the first pass
C18_Witness ==
  /\ SecondPassReturned
  /\ results # stateResults
  /\ \E a, b \in 1..Len(lines) : IsError(results[a]) /\ results[b].type = "number"

(***************************************************************************)
(* C20: on every expression of the grammar parse consumes all tokens and   *)
(* returns the tree of the usual reading: the expression splits at its     *)
(* last + or - outside parentheses, when it has none at its last * or /    *)
(* outside parentheses, and a parenthesised expression stands as one       *)
(* operand.  So * and / bind tighter than + and -, operators of one level  *)
(* associate to the left (a - b - c is (a - b) - c, a + b * c is           *)
(* a + (b * c)).                                                           *)
(***************************************************************************)
\* the token at position i is outside every pair of parentheses
OutsideParens(tokens, i) ==
  Cardinality({j \in 1..(i - 1) : tokens[j].type = "LPAREN"})
    = Cardinality({j \in 1..(i - 1) : tokens[j].type = "RPAREN"})

\* the positions of the operators of one level outside parentheses
OperatorsAt(tokens, level) ==
  {i \in 1..Len(tokens) :
     tokens[i].type = "OPERATOR" /\ tokens[i].text[1] \in level
       /\ OutsideParens(tokens, i)}

Last(S) == CHOOSE i \in S : \A j \in S : j <= i

\* the tree of an expression, by its last operator of the lowest level
RECURSIVE TreeOf(_)
TreeOf(tokens) ==
  LET adds == OperatorsAt(tokens, {"+", "-"})
      muls == OperatorsAt(tokens, {"*", "/"})
      at   == IF adds # {} THEN Last(adds) ELSE Last(muls)
  IN  IF adds # {} \/ muls # {} THEN
        Binary(tokens[at].text[1],
               TreeOf(SubSeq(tokens, 1, at - 1)),
               TreeOf(SubSeq(tokens, at + 1, Len(tokens))))
      ELSE IF tokens[1].type = "LPAREN" THEN TreeOf(SubSeq(tokens, 2, Len(tokens) - 1))
      ELSE IF tokens[1].type = "NUMBER" THEN [type |-> "number", value |-> tokens[1].num]
      ELSE [type |-> "variable", name |-> tokens[1].text]

C20_Precedence ==
  pc = "running" =>
    \A k \in 1..Len(results) :
      lines[k] \in ExpressionLines =>
        /\ ParseOf(lines[k]).ok
        /\ ~hasNext(Tokens(lines[k]), ParseOf(lines[k]).index)
        /\ ParseOf(lines[k]).node = TreeOf(Tokens(lines[k]))

\* 8 - 4 - 2 has been parsed as (8 - 4) - 2 and evaluated to 2
C20_Witness ==
  /\ PassReturned
  /\ lines = <<(<<"8", "-", "4", "-", "2">>)>>
  /\ ParseOf(lines[1]).node =
       Binary("-", Binary("-", [type |-> "number", value |-> IntNum(8)],
                               [type |-> "number", value |-> IntNum(4)]),
                   [type |-> "number", value |-> IntNum(2)])
  /\ results[1].type = "number"
  /\ results[1].raw.result = IntNum(2)

(***************************************************************************)
(* C19: under every sequence of input, undo and external changes of the    *)
(* content at most one call of #calculateResults is in flight: a call      *)
(* starts only when the call before it has returned and stored its         *)
(* results.                                                                *)
(***************************************************************************)
C19_OnePassInFlight == Len(passes) <= 1

(***************************************************************************)
(* C21: parse raises "Unexpected end of input" when a factor has to follow *)
(* and the token list is exhausted, "Unexpected token" when the token      *)
(* where a factor has to start is no NUMBER, VARIABLE, LINEREF or LPAREN,  *)
(* and "Expected closing parenthesis" when the expression after an LPAREN  *)
(* is not followed by an RPAREN; the line gets the error result with that  *)
(* message.                                                                *)
(***************************************************************************)
FactorStarts == {"NUMBER", "VARIABLE", "LINEREF", "LPAREN"}

C21_ParseErrors ==
  pc = "running" =>
    \A k \in {index} \cap (1..Len(results)) :
      LET tokens == Tokens(lines[k])
          parser == ParseOf(lines[k])
      IN  /\ lines[k] \in TruncatedLines =>
               /\ ~parser.ok /\ parser.error = "Unexpected end of input"
               /\ parser.index = Len(tokens) + 2
          /\ lines[k] \in BadFactorLines =>
               /\ ~parser.ok /\ parser.error = "Unexpected token"
               /\ tokens[parser.index - 1].type \notin FactorStarts
          /\ lines[k] \in UnclosedLines =>
               /\ ~parser.ok /\ parser.error = "Expected closing parenthesis"
               /\ \E t \in 1..Len(tokens) : tokens[t].type = "LPAREN"
               /\ \/ parser.index = Len(tokens) + 1
                  \/ tokens[parser.index - 1].type # "RPAREN"
          /\ lines[k] \in ErrorLines =>
               (IsError(results[k]) /\ results[k].error = parser.error)
          /\ (~parser.ok /\ parser.error = "Unexpected end of input")
               => parser.index = Len(tokens) + 2
          /\ (~parser.ok /\ parser.error = "Unexpected token")
               => tokens[parser.index - 1].type \notin FactorStarts

\* one line of every kind has been handled
C21_Witness ==
  /\ PassReturned
  /\ lines[1] \in {<<"8", "+">>, <<")", "8">>, <<"(", "8", "+", "4">>}
  /\ IsError(results[1])
  /\ results[1].error \in {"Unexpected end of input", "Unexpected token",
                           "Expected closing parenthesis"}

(***************************************************************************)
(* C22: the lexer ends on every input and raises nothing: each iteration   *)
(* of its loop moves the index forward, it returns a list of tokens of the *)
(* seven token types, no longer than the input, and a character that is no *)
(* whitespace, '#', digit, '.', letter, operator, '=' or parenthesis gives *)
(* no token and no error: the tokens are those of the input with a space   *)
(* in the place of every such character.                                   *)
(***************************************************************************)
TokenTypeNames ==
  {"NUMBER", "VARIABLE", "LINEREF", "OPERATOR", "ASSIGN", "LPAREN", "RPAREN"}

\* the character belongs to no class of the lexer
IsUnknown(c) ==
  ~(IsSpace(c) \/ c = "#" \/ IsDigit(c) \/ c = "." \/ IsLetter(c)
      \/ c \in {"+", "-", "*", "/", "=", "(", ")"})

\* the input with a space in the place of every unknown character
Blanked(input) ==
  [i \in 1..Len(input) |-> IF IsUnknown(input[i]) THEN " " ELSE input[i]]

C22_LexerTotal ==
  pc = "running" =>
    \A k \in {index} \cap (1..Len(results)) :
      LET input  == lines[k]
          tokens == lexer(input)
      IN  /\ \A i \in 1..Len(input) : LexNext(input, i) > i
          /\ Len(tokens) <= Len(input)
          /\ \A t \in 1..Len(tokens) : tokens[t].type \in TokenTypeNames
          /\ tokens = lexer(Blanked(input))
          /\ (\A i \in 1..Len(input) : IsUnknown(input[i]) \/ IsSpace(input[i]))
               => (tokens = <<>> /\ ~IsError(results[k]))

\* a line with an unknown character between two tokens has been handled
C22_Witness ==
  /\ PassReturned
  /\ lines = <<(<<"1", "$", "x">>)>>
  /\ Len(lexer(lines[1])) = 2
  /\ results[1].error = "Extra tokens after expression"

(***************************************************************************)
(* C23: a line that starts with a minus sign followed by an expression     *)
(* loses the minus silently: its result is the value result of the line    *)
(* without the leading minus (-3+2 gives the 5 of 3+2) and no error.       *)
(***************************************************************************)
\* the result the loop gives the k-th line when its first character is
\* taken away
ResultWithoutFirst(k) ==
  processLine(Tail(lines[k]), ScopeBefore(k), SubSeq(results, 1, k - 1), k - 1)

C23_LeadingMinusDropped ==
  pc = "running" =>
    \A k \in {index} \cap (1..Len(results)) :
      lines[k] \in LeadingMinusLines =>
        /\ ~IsError(results[k])
        /\ results[k] = ResultWithoutFirst(k)

(***************************************************************************)
(* C23, as the code has it: the lexer makes an OPERATOR token of the       *)
(* leading minus, no factor starts with it, and the line gets the error    *)
(* "Unexpected token", while the line without the minus gets a value       *)
(* result.                                                                 *)
(***************************************************************************)
C23_LeadingMinusIsError ==
  pc = "running" =>
    \A k \in {index} \cap (1..Len(results)) :
      lines[k] \in LeadingMinusLines =>
        /\ Tokens(lines[k])[1] = Token("OPERATOR", NaN, <<"-">>)
        /\ IsError(results[k])
        /\ results[k].error = "Unexpected token"
        /\ ResultWithoutFirst(k).type = "number"

\* -3+2 is in error and 3+2 has the value 5
C23_Witness ==
  /\ PassReturned
  /\ lines = <<(<<"-", "3", "+", "2">>)>>
  /\ results[1].error = "Unexpected token"
  /\ ResultWithoutFirst(1).raw.result = IntNum(5)

(***************************************************************************)
(* C24: after any sequence of input and undo events, once no debounce      *)
(* timer is pending and no call of #calculateResults is running, the       *)
(* results in the application state are the results of a pass over the     *)
(* current content of the editor, one for each of its lines.               *)
(***************************************************************************)
\* nothing is pending or running, and the editor has had content
Quiescent == debounceTimer = <<>> /\ passes = <<>> /\ history # <<>>

C24_ResultsCurrent ==
  Quiescent =>
    /\ Len(stateResults) = Len(content)
    /\ stateResults = ReturnAfter(content, Len(content)).results

(***************************************************************************)
(* C25: input events that follow each other within less than 300 ms start  *)
(* one pass for the whole burst: an input starts no pass and leaves one    *)
(* timeout pending, set for its own content; the only other change of the  *)
(* pending timeouts is the timeout running, 300 ms after the last input,   *)
(* and it starts exactly one pass, over the content of the last input.     *)
(***************************************************************************)
\* the step is an input event: only #handleInput makes the history longer
IsInputStep == Len(history') = Len(history) + 1

C25_Debounce ==
  [][ /\ Len(debounceTimer') <= 1
      /\ IsInputStep =>
           /\ debounceTimer' = <<content'>>
           /\ content' = history'[Len(history')]
           /\ sinceInput' = 0
           /\ passes' = passes
      /\ (~IsInputStep /\ debounceTimer' # debounceTimer) =>
           /\ sinceInput = DebounceMs
           /\ debounceTimer' = <<>>
           /\ passes' = Append(passes, NewPass(history[Len(history)], FALSE))
      /\ (~IsInputStep /\ debounceTimer' = debounceTimer) =>
           Len(passes') <= Len(passes)
    ]_vars

\* two inputs less than 300 ms apart on an empty editor, and 300 ms after
\* the second one the only pass there has been starts, over its content
C25_Witness ==
  /\ Len(history) = 2
  /\ stateResults = <<>>
  /\ debounceTimer = <<>>
  /\ sinceInput = DebounceMs
  /\ Len(passes) = 1
  /\ passes[1] = NewPass(history[2], FALSE)
  /\ content = history[2]

(***************************************************************************)
(* C26: a line that refers to an earlier line whose result is the empty    *)
(* marker gets an error result: the reference gives neither a number of    *)
(* some other line nor a silent zero.                                      *)
(***************************************************************************)
C26_RefToEmptyLine ==
  pc = "running" =>
    \A k \in {index} \cap (1..Len(results)) :
      \A j \in Refs(lines[k]) \cap (1..(k - 1)) :
        (results[j].type = "empty" /\ results[j].value = DisplayEmpty) =>
          IsError(results[k])

(***************************************************************************)
(* C27: a line reference to an earlier line that has a value result        *)
(* evaluates to exactly the number that line displays: the display of the  *)
(* line is its number and the lineref branch of evaluate returns that      *)
(* number (10 then #1 + 5 gives 10 and 15).                                *)
(***************************************************************************)
C27_RefIsDisplayedNumber ==
  pc = "running" =>
    \A k \in {index} \cap (1..Len(results)) :
      \A j \in Refs(lines[k]) \cap (1..(k - 1)) :
        results[j].type = "number" =>
          LET ref == EvalLineRef(IntNum(j), SimpleResults(SubSeq(results, 1, k - 1)),
                                 k - 1, ScopeBefore(k))
          IN  /\ results[j].value # DisplayObject
              /\ ref.ok
              /\ ref.result = results[j].raw.result

C29_HistoryEndsWithContent ==
  history # <<>> => history[Len(history)] = content

(***************************************************************************)
(* C30: when setState throws because a validator rejects the update, the   *)
(* state read through getState is the state read before the call, nested   *)
(* keys such as editor.content included.                                   *)
(***************************************************************************)
C30_RejectedLeavesState ==
  lastCall.threw => getState(appState, heap) = lastCall.before

====
